---- MODULE Spec2Model ----
(***************************************************************************)
(* Near-duplicate vocabulary clustering of scripts/prepare_words.py:       *)
(* deduplicate_by_similarity with its helpers edit_distance and            *)
(* cosine_similarity.  Characters are code points, a word is a sequence of *)
(* code points, a vector is a sequence of integers, and embeddings (a      *)
(* Python dict, ordered by insertion) is a sequence of <<word, vector>>    *)
(* entries with pairwise distinct words.  Word ids are Python's, 0-based.  *)
(* Cosine similarity is compared with the threshold in exact arithmetic;   *)
(* the vectors and thresholds drawn in Init are ones for which the float   *)
(* computation of the code gives the same comparison.                      *)
(***************************************************************************)
EXTENDS Integers, Sequences, FiniteSets, Bags

VARIABLES embeddings, spelling_threshold, semantic_threshold, parent,
          bigram_index, word_bigrams, i, candidates, seen_pairs, checked,
          merge_count, groups, canonical_words, pc, run, unions, dropped,
          entered, seen_skips

\* pc is the position in the pass and run the number of the call; unions
\* (the pairs union was called on), dropped (the words the first call
\* merged away), entered (the bag of pairs that got past both guards of the
\* inner loop) and seen_skips (how often the seen_pairs guard skipped a
\* pair) are history only, read by no step of the pass.
vars == <<embeddings, spelling_threshold, semantic_threshold, parent,
          bigram_index, word_bigrams, i, candidates, seen_pairs, checked,
          merge_count, groups, canonical_words, pc, run, unions, dropped,
          entered, seen_skips>>

(* ------------------------------ bounds --------------------------------- *)
\* the longest word of a two-word vocabulary
MaxLen == 3

\* the most words of a vocabulary of short words
MaxWords == 3

\* the longest word of a two-word vocabulary over three letters
WideLen == 4

(* ------------------------- input domains ------------------------------- *)
\* 'a' and 'b'
Alphabet == {97, 98}

\* '^', the start marker of a padded word
Caret == 94

\* '$', the end marker of a padded word
Dollar == 36

WordPool == UNION {[1..k -> Alphabet] : k \in 1..MaxLen}

\* a, b, aa, ab, ba, bb
ShortWords == UNION {[1..k -> Alphabet] : k \in 1..2}

\* two vectors of one dimensionality, orthogonal to each other
Vecs == {<<1, 0>>, <<0, 1>>}

\* a zero-magnitude vector and another of its dimensionality
ZeroVecs == {<<0, 0>>, <<1, 0>>}

\* vectors of two dimensionalities
MixedVecs == {<<1, 0>>, <<0, 1>>, <<1>>}

\* 0, and the thresholds of the two calls
SpellingThresholds == {0, 1, 2}

\* num/den: the default 0.85
SemanticThresholds == {[num |-> 17, den |-> 20]}

\* 0 and 0.85
AllowedSemanticThresholds == {[num |-> 0, den |-> 1], [num |-> 17, den |-> 20]}

\* the thresholds of the two calls
CalledSpellingThresholds == {1, 2}

RECURSIVE DistinctSeqs(_, _)
\* the sequences of at most k pairwise distinct elements of S
DistinctSeqs(S, k) ==
    IF k = 0 THEN {<<>>}
    ELSE LET shorter == DistinctSeqs(S, k - 1)
         IN  shorter \cup
             {Append(p[1], p[2]) : p \in
                 {q \in shorter \X S :
                     /\ Len(q[1]) = k - 1
                     /\ \A m \in 1..Len(q[1]) : q[1][m] # q[2]}}

\* the key orders of the input dicts: up to MaxWords short words, or two
\* words of up to MaxLen characters
Vocabularies ==
    DistinctSeqs(ShortWords, MaxWords)
        \cup {ws \in DistinctSeqs(WordPool, 2) : Len(ws) = 2}

\* the dicts word -> vector with vectors from V, in every insertion order
Dicts(V) ==
    UNION {{[m \in 1..Len(ws) |-> <<ws[m], vs[m]>>] : vs \in [1..Len(ws) -> V]} :
              ws \in Vocabularies}

\* 'a', 'b' and 'c'
WideAlphabet == {97, 98, 99}

\* the dicts of two words of up to WideLen characters over three letters,
\* both with the same vector
WideDicts ==
    LET pool == UNION {[1..k -> WideAlphabet] : k \in 1..WideLen}
    IN  {<<<<p[1], <<1, 0>>>>, <<p[2], <<1, 0>>>>>> :
            p \in {q \in pool \X pool : q[1] # q[2]}}

(* ------------------------------ helpers -------------------------------- *)
Min2(a, b) == IF a <= b THEN a ELSE b

Max2(a, b) == IF a >= b THEN a ELSE b

Abs(a) == IF a >= 0 THEN a ELSE 0 - a

RECURSIVE Levenshtein(_, _)
\* the minimum number of single-character insertions, deletions and
\* substitutions that turn s into t (the reference, by its recurrence on
\* the last characters)
Levenshtein(s, t) ==
    IF Len(s) = 0 THEN Len(t)
    ELSE IF Len(t) = 0 THEN Len(s)
    ELSE LET s0 == SubSeq(s, 1, Len(s) - 1)
             t0 == SubSeq(t, 1, Len(t) - 1)
             c  == IF s[Len(s)] = t[Len(t)] THEN 0 ELSE 1
         IN  Min2(Min2(Levenshtein(s0, t) + 1, Levenshtein(s, t0) + 1),
                  Levenshtein(s0, t0) + c)

RECURSIVE EditRowFreeSubstitution(_, _, _, _, _)
\* EditRow with the cost of a substitution forgotten
EditRowFreeSubstitution(c1, s2, prev_row, curr_row, j) ==
    IF j >= Len(s2) THEN curr_row
    ELSE LET insertions    == prev_row[j + 2] + 1
             deletions     == curr_row[j + 1] + 1
             substitutions == prev_row[j + 1]
         IN  EditRowFreeSubstitution(c1, s2, prev_row,
                     Append(curr_row, Min2(Min2(insertions, deletions), substitutions)),
                     j + 1)

RECURSIVE EditRow(_, _, _, _, _)
\* the inner loop of edit_distance: curr_row after columns j..len(s2)-1
\* (j is Python's 0-based column; rows are 1-based sequences here)
EditRow(c1, s2, prev_row, curr_row, j) ==
    IF j >= Len(s2) THEN curr_row
    ELSE LET insertions    == prev_row[j + 2] + 1
             deletions     == curr_row[j + 1] + 1
             substitutions == prev_row[j + 1] + (IF c1 # s2[j + 1] THEN 1 ELSE 0)
         IN  EditRow(c1, s2, prev_row,
                     Append(curr_row, Min2(Min2(insertions, deletions), substitutions)),
                     j + 1)

RECURSIVE EditRows(_, _, _, _)
\* the outer loop of edit_distance from row k (0-based) on
EditRows(s1, s2, prev_row, k) ==
    IF k >= Len(s1) THEN prev_row
    ELSE EditRows(s1, s2, EditRow(s1[k + 1], s2, prev_row, <<k + 1>>, 0), k + 1)

RECURSIVE edit_distance(_, _)
edit_distance(s1, s2) ==
    IF Len(s1) < Len(s2) THEN edit_distance(s2, s1)
    ELSE IF Len(s2) = 0 THEN Len(s1)
    ELSE LET last == EditRows(s1, s2, [m \in 1..(Len(s2) + 1) |-> m - 1], 0)
         IN  last[Len(last)]

RECURSIVE Dot(_, _, _)
\* sum(a * b for a, b in zip(v1, v2)) over the first k positions
Dot(v1, v2, k) == IF k = 0 THEN 0 ELSE Dot(v1, v2, k - 1) + v1[k] * v2[k]

\* dot of cosine_similarity: zip stops at the shorter vector
ZipDot(v1, v2) == Dot(v1, v2, Min2(Len(v1), Len(v2)))

\* the square of norm1 / norm2
SumSquares(v) == Dot(v, v, Len(v))

\* CosineAtLeast with a zero-magnitude vector taken as similar to everything
CosineAtLeastZeroIsOne(v1, v2, t) ==
    LET dot == ZipDot(v1, v2)
        sq  == SumSquares(v1) * SumSquares(v2)
        lhs == dot * t.den
    IN  IF SumSquares(v1) = 0 \/ SumSquares(v2) = 0
        THEN t.den >= t.num
        ELSE IF t.num >= 0
             THEN lhs >= 0 /\ lhs * lhs >= t.num * t.num * sq
             ELSE lhs >= 0 \/ lhs * lhs <= t.num * t.num * sq

\* cosine_similarity(v1, v2) >= t.num / t.den
CosineAtLeast(v1, v2, t) ==
    LET dot == ZipDot(v1, v2)
        sq  == SumSquares(v1) * SumSquares(v2)
        lhs == dot * t.den
    IN  IF SumSquares(v1) = 0 \/ SumSquares(v2) = 0
        THEN 0 >= t.num
        ELSE IF t.num >= 0
             THEN lhs >= 0 /\ lhs * lhs >= t.num * t.num * sq
             ELSE lhs >= 0 \/ lhs * lhs <= t.num * t.num * sq

\* FindAt that follows one parent link only
FindAtOneHop(p, x) == <<p, p[x]>>

RECURSIVE FindAt(_, _)
\* find(x) on forest p: <<the forest after path compression, the root>>
FindAt(p, x) ==
    IF p[x] # x
    THEN LET r == FindAt(p, p[x])
         IN  <<[r[1] EXCEPT ![x] = r[2]], r[2]>>
    ELSE <<p, x>>

\* UnionAt that links x itself, not its root, under the root of y
UnionAtChild(p, x, y) ==
    LET fx == FindAt(p, x)
        fy == FindAt(fx[1], y)
        px == fx[2]
        py == fy[2]
    IN  IF px # py THEN [fy[1] EXCEPT ![x] = py] ELSE fy[1]

\* union(x, y) on forest p: the forest afterwards
UnionAt(p, x, y) ==
    LET fx == FindAt(p, x)
        fy == FindAt(fx[1], y)
        px == fx[2]
        py == fy[2]
    IN  IF px # py THEN [fy[1] EXCEPT ![px] = py] ELSE fy[1]

\* padded = "^word$"
Padded(word) == <<Caret>> \o word \o <<Dollar>>

\* {padded[j:j+2] for j in range(len(padded) - 1)}
Bigrams(word) ==
    LET padded == Padded(word)
    IN  {<<padded[j], padded[j + 1]>> : j \in 1..(Len(padded) - 1)}

(* --------------------------- the locals -------------------------------- *)
n == Len(embeddings)

Ids == 0..(n - 1)

\* words = list(embeddings.keys())
words == [k \in Ids |-> embeddings[k + 1][1]]

\* vectors = [embeddings[w] for w in words]
vectors == [k \in Ids |-> embeddings[k + 1][2]]

(* ------------------------------ Init ----------------------------------- *)
Start(emb) ==
    /\ embeddings = emb
    /\ parent = [k \in 0..(Len(emb) - 1) |-> k]
    /\ bigram_index = <<>>
    /\ word_bigrams = <<>>
    /\ i = 0
    /\ candidates = {}
    /\ seen_pairs = {}
    /\ checked = 0
    /\ merge_count = 0
    /\ groups = <<>>
    /\ canonical_words = <<>>
    /\ unions = {}
    /\ entered = EmptyBag
    /\ seen_skips = 0
    /\ pc = "index"

InitWith(V, S, T) ==
    /\ \E emb \in Dicts(V) : Start(emb)
    /\ spelling_threshold \in S
    /\ semantic_threshold \in T
    /\ run = 1
    /\ dropped = 0

\* well-formed input, the default semantic threshold
Init == InitWith(Vecs, SpellingThresholds, SemanticThresholds)

\* input with a zero-magnitude vector, every kind of semantic threshold
InitZero == InitWith(ZeroVecs, CalledSpellingThresholds, AllowedSemanticThresholds)

\* input whose vectors may differ in dimensionality
InitMixed == InitWith(MixedVecs, SpellingThresholds, SemanticThresholds)

\* two longer words over three letters, the thresholds of the two calls
InitWide ==
    /\ \E emb \in WideDicts : Start(emb)
    /\ spelling_threshold \in CalledSpellingThresholds
    /\ semantic_threshold \in SemanticThresholds
    /\ run = 1
    /\ dropped = 0

(* ----------------------------- actions --------------------------------- *)
\* the loop that fills word_bigrams and bigram_index
BuildIndex ==
    /\ pc = "index"
    /\ word_bigrams' = [k \in Ids |-> Bigrams(words[k])]
    /\ bigram_index' = [bg \in UNION {Bigrams(words[k]) : k \in Ids} |->
                           {k \in Ids : bg \in Bigrams(words[k])}]
    /\ i' = 0
    /\ pc' = "outer"
    /\ UNCHANGED <<embeddings, spelling_threshold, semantic_threshold, parent,
                   candidates, seen_pairs, checked, merge_count, groups,
                   canonical_words, run, unions, dropped,
                   entered, seen_skips>>

\* the head of "for i in range(n)": the candidate set of word i
NextWord ==
    /\ pc = "outer"
    /\ i < n
    /\ candidates' = UNION {bigram_index[bg] : bg \in word_bigrams[i]}
    /\ pc' = "inner"
    /\ UNCHANGED <<embeddings, spelling_threshold, semantic_threshold, parent,
                   bigram_index, word_bigrams, i, seen_pairs, checked,
                   merge_count, groups, canonical_words, run, unions, dropped,
                   entered, seen_skips>>

\* the pair (a, b) gets past the length filter and the bigram-overlap filter
PassesFiltersOf(a, b) ==
    LET bg1 == word_bigrams[a]
        bg2 == word_bigrams[b]
        overlap == Cardinality(bg1 \cap bg2)
        min_required == Max2(1, Min2(Cardinality(bg1), Cardinality(bg2))
                                    - spelling_threshold - 1)
    IN  /\ ~(Abs(Len(words[a]) - Len(words[b])) > spelling_threshold)
        /\ ~(overlap < min_required)

\* the two filters on the pair (i, j) of the loops
PassesFilters(j) == PassesFiltersOf(i, j)

\* the two thresholds on the pair (i, j)
ShouldMerge(j) ==
    /\ ~(edit_distance(words[i], words[j]) > spelling_threshold)
    /\ CosineAtLeast(vectors[i], vectors[j], semantic_threshold)

\* SkipsEarlier that skips the word itself only
SkipsSelfOnly(j) == j = i

\* "if j <= i: continue"
SkipsEarlier(j) == j <= i

\* pair = (i, j) if i < j else (j, i)
PairOf(j) == IF i < j THEN <<i, j>> ELSE <<j, i>>

\* one iteration of "for j in candidates", in whatever order the set yields
Candidate ==
    /\ pc = "inner"
    /\ \E j \in candidates :
        /\ candidates' = candidates \ {j}
        /\ IF SkipsEarlier(j)
           THEN UNCHANGED <<seen_pairs, checked, parent, merge_count, unions,
                            entered, seen_skips>>
           ELSE IF PairOf(j) \in seen_pairs
           THEN /\ seen_skips' = seen_skips + 1
                /\ UNCHANGED <<seen_pairs, checked, parent, merge_count, unions,
                               entered>>
           ELSE /\ seen_pairs' = seen_pairs \cup {PairOf(j)}
                /\ entered' = entered (+) SetToBag({PairOf(j)})
                /\ UNCHANGED seen_skips
                /\ IF ~PassesFilters(j)
                   THEN UNCHANGED <<checked, parent, merge_count, unions>>
                   ELSE /\ checked' = checked + 1
                        /\ IF ShouldMerge(j)
                           THEN /\ parent' = UnionAt(parent, i, j)
                                /\ merge_count' = merge_count + 1
                                /\ unions' = unions \cup {<<i, j>>}
                           ELSE UNCHANGED <<parent, merge_count, unions>>
    /\ UNCHANGED <<embeddings, spelling_threshold, semantic_threshold,
                   bigram_index, word_bigrams, i, groups, canonical_words,
                   pc, run, dropped>>

RECURSIVE RootOf(_, _)
\* find(x) without path compression: the root alone
RootOf(p, x) == IF p[x] # x THEN RootOf(p, p[x]) ELSE x

\* union(x, y) in every variant: either root kept, the paths of the two
\* finds compressed or left as they are
UnionChoices(p, x, y) ==
    LET compressed == FindAt(FindAt(p, x)[1], y)[1]
        px == RootOf(p, x)
        py == RootOf(p, y)
    IN  {UnionAt(p, x, y)} \cup
        (IF px = py
         THEN {p, compressed}
         ELSE {[f EXCEPT ![q[1]] = q[2]] :
                  f \in {p, compressed}, q \in {<<px, py>>, <<py, px>>}})

\* the inner loop step with union in any variant
CandidateFree ==
    /\ pc = "inner"
    /\ \E j \in candidates :
        /\ candidates' = candidates \ {j}
        /\ IF SkipsEarlier(j)
           THEN UNCHANGED <<seen_pairs, checked, parent, merge_count, unions,
                            entered, seen_skips>>
           ELSE IF PairOf(j) \in seen_pairs
           THEN /\ seen_skips' = seen_skips + 1
                /\ UNCHANGED <<seen_pairs, checked, parent, merge_count, unions,
                               entered>>
           ELSE /\ seen_pairs' = seen_pairs \cup {PairOf(j)}
                /\ entered' = entered (+) SetToBag({PairOf(j)})
                /\ UNCHANGED seen_skips
                /\ IF ~PassesFilters(j)
                   THEN UNCHANGED <<checked, parent, merge_count, unions>>
                   ELSE /\ checked' = checked + 1
                        /\ IF ShouldMerge(j)
                           THEN /\ parent' \in UnionChoices(parent, i, j)
                                /\ merge_count' = merge_count + 1
                                /\ unions' = unions \cup {<<i, j>>}
                           ELSE UNCHANGED <<parent, merge_count, unions>>
    /\ UNCHANGED <<embeddings, spelling_threshold, semantic_threshold,
                   bigram_index, word_bigrams, i, groups, canonical_words,
                   pc, run, dropped>>

\* the candidate set of word i is exhausted
EndWord ==
    /\ pc = "inner"
    /\ candidates = {}
    /\ i' = i + 1
    /\ pc' = "outer"
    /\ UNCHANGED <<embeddings, spelling_threshold, semantic_threshold, parent,
                   bigram_index, word_bigrams, candidates, seen_pairs, checked,
                   merge_count, groups, canonical_words, run, unions, dropped,
                   entered, seen_skips>>

\* GroupAppend that puts a new group before the groups already there
GroupAppendFront(g, root, k) ==
    IF \E m \in 1..Len(g) : g[m].root = root
    THEN [m \in 1..Len(g) |->
             IF g[m].root = root
             THEN [g[m] EXCEPT !.indices = Append(g[m].indices, k)]
             ELSE g[m]]
    ELSE <<[root |-> root, indices |-> <<k>>]>> \o g

\* GroupAppend that appends the root in place of the id
GroupAppendRoot(g, root, k) ==
    IF \E m \in 1..Len(g) : g[m].root = root
    THEN [m \in 1..Len(g) |->
             IF g[m].root = root
             THEN [g[m] EXCEPT !.indices = Append(g[m].indices, root)]
             ELSE g[m]]
    ELSE Append(g, [root |-> root, indices |-> <<root>>])

\* groups[root].append(k): groups is a dict, kept here in insertion order
GroupAppend(g, root, k) ==
    IF \E m \in 1..Len(g) : g[m].root = root
    THEN [m \in 1..Len(g) |->
             IF g[m].root = root
             THEN [g[m] EXCEPT !.indices = Append(g[m].indices, k)]
             ELSE g[m]]
    ELSE Append(g, [root |-> root, indices |-> <<k>>])

RECURSIVE GroupFrom(_, _, _)
\* "for i in range(n): root = find(i); groups[root].append(i)" from k on:
\* <<the forest, the groups>> at the end
GroupFrom(p, g, k) ==
    IF k >= n THEN <<p, g>>
    ELSE LET f == FindAt(p, k)
         IN  GroupFrom(f[1], GroupAppend(g, f[2], k), k + 1)

\* the grouping loop after the candidate loop
Group ==
    /\ pc = "outer"
    /\ i >= n
    /\ LET r == GroupFrom(parent, <<>>, 0)
       IN  /\ parent' = r[1]
           /\ groups' = r[2]
    /\ pc' = "select"
    /\ UNCHANGED <<embeddings, spelling_threshold, semantic_threshold,
                   bigram_index, word_bigrams, i, candidates, seen_pairs,
                   checked, merge_count, canonical_words, run, unions, dropped,
                   entered, seen_skips>>

RECURSIVE GroupFromPlain(_, _)
\* the grouping loop from k on with find leaving the forest as it is
GroupFromPlain(g, k) ==
    IF k >= n THEN g
    ELSE GroupFromPlain(GroupAppend(g, RootOf(parent, k), k), k + 1)

\* the grouping loop without path compression
GroupPlain ==
    /\ pc = "outer"
    /\ i >= n
    /\ groups' = GroupFromPlain(<<>>, 0)
    /\ pc' = "select"
    /\ UNCHANGED <<embeddings, spelling_threshold, semantic_threshold, parent,
                   bigram_index, word_bigrams, i, candidates, seen_pairs,
                   checked, merge_count, canonical_words, run, unions, dropped,
                   entered, seen_skips>>

RECURSIVE StrLess(_, _)
\* Python's s < t on strings: by code point, a proper prefix first
StrLess(s, t) ==
    IF Len(t) = 0 THEN FALSE
    ELSE IF Len(s) = 0 THEN TRUE
    ELSE IF s[1] # t[1] THEN s[1] < t[1]
    ELSE StrLess(Tail(s), Tail(t))

\* KeyLess with the length dropped from the key
KeyLessWordOnly(w1, w2) == StrLess(w1, w2)

\* (len(w1), w1) < (len(w2), w2)
KeyLess(w1, w2) ==
    \/ Len(w1) < Len(w2)
    \/ Len(w1) = Len(w2) /\ StrLess(w1, w2)

RECURSIVE Insert(_, _)
\* w put into the sorted list ws, after the entries that are not greater
Insert(ws, w) ==
    IF Len(ws) = 0 THEN <<w>>
    ELSE IF KeyLess(w, ws[1]) THEN <<w>> \o ws
    ELSE <<ws[1]>> \o Insert(Tail(ws), w)

RECURSIVE SortByKey(_)
\* group_words.sort(key=lambda w: (len(w), w)), a stable sort
SortByKey(ws) ==
    IF Len(ws) = 0 THEN <<>>
    ELSE Insert(SortByKey(SubSeq(ws, 1, Len(ws) - 1)), ws[Len(ws)])

\* embeddings[w]
Lookup(emb, w) == emb[CHOOSE m \in 1..Len(emb) : emb[m][1] = w][2]

\* d[k] = v on a dict kept in insertion order
DictSet(d, k, v) ==
    IF \E m \in 1..Len(d) : d[m][1] = k
    THEN [m \in 1..Len(d) |-> IF d[m][1] = k THEN <<k, v>> ELSE d[m]]
    ELSE Append(d, <<k, v>>)

\* canonical = group_words[0] of the sorted words of a group
Canonical(indices) ==
    SortByKey([m \in 1..Len(indices) |-> words[indices[m]]])[1]

\* CanonicalVector taking the vector of the group's first member
CanonicalVectorOfFirstMember(emb, indices, canonical) == emb[indices[1] + 1][2]

\* the vector stored for the canonical word of a group
CanonicalVector(emb, indices, canonical) == Lookup(emb, canonical)

RECURSIVE SelectFrom(_, _)
\* "for root, indices in groups.items()" from the m-th group on
SelectFrom(cw, m) ==
    IF m > Len(groups) THEN cw
    ELSE LET canonical == Canonical(groups[m].indices)
         IN  SelectFrom(DictSet(cw, canonical,
                                CanonicalVector(embeddings, groups[m].indices, canonical)),
                        m + 1)

\* the selection loop and the return
Select ==
    /\ pc = "select"
    /\ canonical_words' = SelectFrom(<<>>, 1)
    /\ pc' = "done"
    /\ UNCHANGED <<embeddings, spelling_threshold, semantic_threshold, parent,
                   bigram_index, word_bigrams, i, candidates, seen_pairs,
                   checked, merge_count, groups, run, unions, dropped,
                   entered, seen_skips>>

\* the pass is called again on what it returned, with the same thresholds;
\* dropped records how many words the first call merged away
Rerun ==
    /\ pc = "done"
    /\ run = 1
    /\ run' = 2
    /\ dropped' = n - Len(canonical_words)
    /\ embeddings' = canonical_words
    /\ parent' = [k \in 0..(Len(canonical_words) - 1) |-> k]
    /\ bigram_index' = <<>>
    /\ word_bigrams' = <<>>
    /\ i' = 0
    /\ candidates' = {}
    /\ seen_pairs' = {}
    /\ checked' = 0
    /\ merge_count' = 0
    /\ groups' = <<>>
    /\ canonical_words' = <<>>
    /\ unions' = {}
    /\ entered' = EmptyBag
    /\ seen_skips' = 0
    /\ pc' = "index"
    /\ UNCHANGED <<spelling_threshold, semantic_threshold>>

Next ==
    \/ BuildIndex
    \/ NextWord
    \/ Candidate
    \/ EndWord
    \/ Group
    \/ Select
    \/ Rerun

Spec == Init /\ [][Next]_vars

SpecZero == InitZero /\ [][Next]_vars

SpecMixed == InitMixed /\ [][Next]_vars

SpecWide == InitWide /\ [][Next]_vars

\* the pass with every order of the candidates (as in Next) and, beyond the
\* code, every variant of union and find
NextFree ==
    \/ BuildIndex
    \/ NextWord
    \/ CandidateFree
    \/ EndWord
    \/ Group
    \/ GroupPlain
    \/ Select
    \/ Rerun

SpecFree == Init /\ [][NextFree]_vars

(* ======================= properties of the pass ======================== *)
\* the pair of words a, b is within both thresholds, the spelling one by
\* the true Levenshtein distance
BothClose(a, b) ==
    /\ Levenshtein(words[a], words[b]) <= spelling_threshold
    /\ CosineAtLeast(vectors[a], vectors[b], semantic_threshold)

\* the ids that share a cluster with x in the output groups
ClusterOf(x) ==
    UNION {{g.indices[m] : m \in 1..Len(g.indices)} :
              g \in {groups[m] : m \in 1..Len(groups)} \cap
                    {h \in {groups[m] : m \in 1..Len(groups)} :
                        \E m \in 1..Len(h.indices) : h.indices[m] = x}}

RECURSIVE Reach(_, _)
\* the ids linked to the set S by a chain of pairs of R, in either direction
Reach(R, S) ==
    LET more == S \cup {p[2] : p \in {q \in R : q[1] \in S}}
                  \cup {p[1] : p \in {q \in R : q[2] \in S}}
    IN  IF more = S THEN S ELSE Reach(R, more)

\* C1: union(i, j) has been invoked only on pairs whose true Levenshtein
\* distance is at most spelling_threshold and whose cosine similarity is at
\* least semantic_threshold.
C1_UnionOnlyWhenBothClose ==
    \A p \in unions : BothClose(p[1], p[2])

\* C1 witness: the pass has finished, a pair was unioned, and a pair that
\* went through the tests while close in only one of the two ways was left
\* alone.
C1_Witness ==
    /\ pc = "done"
    /\ unions # {}
    /\ \E p \in seen_pairs \ unions :
          (Levenshtein(words[p[1]], words[p[2]]) <= spelling_threshold)
              # CosineAtLeast(vectors[p[1]], vectors[p[2]], semantic_threshold)

\* C2: when the pass is done its clusters are those of the brute-force
\* reference, which unions every pair of ids within both thresholds.
C2_ClustersEqualBruteForce ==
    pc = "done" =>
        \A x \in Ids :
            ClusterOf(x) =
                Reach({p \in Ids \X Ids : p[1] < p[2] /\ BothClose(p[1], p[2])}, {x})

\* C3: once the index is built, every pair i < j within the spelling
\* threshold shares a padded bigram, so j is in the candidate set of i.
C3_BlockingSound ==
    pc \notin {"index"} =>
        \A a \in Ids : \A b \in Ids :
            (a < b /\ Levenshtein(words[a], words[b]) <= spelling_threshold) =>
                /\ word_bigrams[a] \cap word_bigrams[b] # {}
                /\ b \in UNION {bigram_index[bg] : bg \in word_bigrams[a]}

\* the members of the m-th output group, as a set
Members(m) == {groups[m].indices[k] : k \in 1..Len(groups[m].indices)}

\* C4: after the candidate loop the groups partition the id space: every id
\* occurs exactly once over all groups, no group is empty, the groups
\* together are exactly 0..n-1, and no two groups share a root or a member.
C4_GroupsPartition ==
    pc \in {"select", "done"} =>
        /\ \A x \in Ids :
              Cardinality({q \in (1..Len(groups)) \X (1..n) :
                              /\ q[2] <= Len(groups[q[1]].indices)
                              /\ groups[q[1]].indices[q[2]] = x}) = 1
        /\ \A m \in 1..Len(groups) : Len(groups[m].indices) > 0
        /\ UNION {Members(m) : m \in 1..Len(groups)} = Ids
        /\ \A m1 \in 1..Len(groups) : \A m2 \in 1..Len(groups) :
              m1 # m2 => /\ Members(m1) \cap Members(m2) = {}
                         /\ groups[m1].root # groups[m2].root

\* C4 witness: grouping is over with a merged group beside a singleton.
C4_Witness ==
    /\ pc = "select"
    /\ \E m \in 1..Len(groups) : Len(groups[m].indices) >= 2
    /\ \E m \in 1..Len(groups) : Len(groups[m].indices) = 1

\* C5: two ids share a group iff a chain of accepted merges (pairs union
\* was called on) links them.
C5_GroupsAreClosureOfUnions ==
    pc \in {"select", "done"} =>
        \A x \in Ids : ClusterOf(x) = Reach(unions, {x})

\* C5 witness: A-B and B-C were accepted, A-C is outside the thresholds,
\* and the three share a group.
C5_Witness ==
    /\ pc = "done"
    /\ \E a \in Ids : \E b \in Ids : \E c \in Ids :
          /\ {<<a, b>>, <<b, a>>} \cap unions # {}
          /\ {<<b, c>>, <<c, b>>} \cap unions # {}
          /\ a # c
          /\ ~BothClose(a, c)
          /\ {<<a, c>>, <<c, a>>} \cap unions = {}
          /\ c \in ClusterOf(a)

\* C6: one word is emitted per group, in the order of the groups; it is a
\* member of its group, no member is shorter, and no member of its length
\* is lexicographically smaller.
C6_CanonicalIsMinimum ==
    pc = "done" =>
        /\ Len(canonical_words) = Len(groups)
        /\ \A m \in 1..Len(groups) :
              LET canonical == canonical_words[m][1]
              IN  /\ \E x \in Members(m) : words[x] = canonical
                  /\ \A x \in Members(m) :
                        /\ Len(words[x]) >= Len(canonical)
                        /\ Len(words[x]) = Len(canonical)
                              => ~StrLess(words[x], canonical)

\* C6 witness: a group whose canonical word is shorter than its first
\* member, and a group whose canonical word wins a tie of lengths against
\* its first member.
C6_Witness ==
    /\ pc = "done"
    /\ \E m \in 1..Len(groups) :
          \/ Len(canonical_words[m][1]) < Len(words[groups[m].indices[1]])
          \/ /\ Len(canonical_words[m][1]) = Len(words[groups[m].indices[1]])
             /\ StrLess(canonical_words[m][1], words[groups[m].indices[1]])

\* C7: the second pass, run on the output of the first with the same
\* thresholds, returns its input unchanged and performs no union.
C7_SecondPassChangesNothing ==
    (run = 2 /\ pc = "done") =>
        /\ canonical_words = embeddings
        /\ unions = {}
        /\ merge_count = 0
        /\ \A m \in 1..Len(groups) : Len(groups[m].indices) = 1

\* C7 witness: the first pass merged words away, and the second pass has
\* finished on an output of several words, two of them close in spelling.
C7_Witness ==
    /\ run = 2
    /\ pc = "done"
    /\ dropped > 0
    /\ \E p \in seen_pairs :
          Levenshtein(words[p[1]], words[p[2]]) <= spelling_threshold

\* a vector of zero magnitude
IsZero(v) == \A k \in 1..Len(v) : v[k] = 0

\* C8 as stated: whatever the thresholds, a word with an all-zero vector is
\* never unioned, and it is alone in its group.
C8_ZeroVectorNeverMerges ==
    \A x \in Ids : IsZero(vectors[x]) =>
        /\ \A p \in unions : p[1] # x /\ p[2] # x
        /\ pc \in {"select", "done"} => ClusterOf(x) = {x}

\* C8 amended: when semantic_threshold is positive, a word with an
\* all-zero vector is never unioned, it is alone in its group, and it is
\* emitted with its zero vector.
C8_ZeroVectorNeverMergesAbovePositiveThreshold ==
    semantic_threshold.num > 0 =>
        \A x \in Ids : IsZero(vectors[x]) =>
            /\ \A p \in unions : p[1] # x /\ p[2] # x
            /\ pc \in {"select", "done"} => ClusterOf(x) = {x}
            /\ pc = "done" =>
                  \E m \in 1..Len(canonical_words) :
                      canonical_words[m] = <<words[x], vectors[x]>>

\* C8 witness: under a positive threshold the pass has finished, a word
\* with a zero vector went through the exact tests against a word within
\* the spelling threshold, and another pair was unioned.
C8_Witness ==
    /\ pc = "done"
    /\ semantic_threshold.num > 0
    /\ unions # {}
    /\ \E p \in seen_pairs :
          /\ IsZero(vectors[p[1]]) \/ IsZero(vectors[p[2]])
          /\ Levenshtein(words[p[1]], words[p[2]]) <= spelling_threshold
          /\ PassesFiltersOf(p[1], p[2])

\* the vectors of the input are not all of one dimensionality
Malformed == \E x \in Ids : \E y \in Ids : Len(vectors[x]) # Len(vectors[y])

\* C9: on input with vectors of inconsistent dimensionality the pass stops
\* before any pair is compared or unioned and produces no output.
C9_MalformedInputFailsFast ==
    Malformed =>
        /\ checked = 0
        /\ unions = {}
        /\ canonical_words = <<>>
        /\ pc \notin {"select", "done"}

\* C10: every emitted entry is an entry of the input, word and vector
\* together, so the vector emitted for a canonical word is the input's
\* vector for that word; and no step of a pass changes the input.
C10_OutputVectorIsInputVector ==
    /\ [](pc = "done" =>
            \A m \in 1..Len(canonical_words) :
                \E k \in 1..Len(embeddings) : canonical_words[m] = embeddings[k])
    /\ [][pc # "done" => embeddings' = embeddings]_vars

\* C10 witness: a group of words with different vectors has been reduced
\* to its canonical word, which is not the group's first member.
C10_Witness ==
    /\ pc = "done"
    /\ \E m \in 1..Len(groups) :
          /\ canonical_words[m][1] # words[groups[m].indices[1]]
          /\ canonical_words[m][2] # vectors[groups[m].indices[1]]

\* the smallest id that shares a cluster with the word w of the input:
\* the earliest input position among the members of w's cluster
EarliestOf(w) ==
    LET x == CHOOSE y \in Ids : words[y] = w
    IN  CHOOSE a \in ClusterOf(x) : \A b \in ClusterOf(x) : a <= b

\* C11: the output lists one entry per cluster, and the entries follow the
\* order of the earliest input position among each cluster's members.
C11_OutputOrderedByEarliestMember ==
    pc = "done" =>
        /\ Len(canonical_words) = Len(groups)
        /\ \A m \in 1..Len(canonical_words) :
              \E x \in Ids : words[x] = canonical_words[m][1]
        /\ \A m1 \in 1..Len(canonical_words) : \A m2 \in 1..Len(canonical_words) :
              m1 < m2 =>
                  EarliestOf(canonical_words[m1][1]) < EarliestOf(canonical_words[m2][1])

\* C11 witness: the canonical word of an earlier entry stood later in the
\* input than every member of the cluster of the entry after it.
C11_Witness ==
    /\ pc = "done"
    /\ \E m \in 1..(Len(canonical_words) - 1) :
          \A y \in Members(m + 1) :
              \E x \in Members(m) : words[x] = canonical_words[m][1] /\ x > y

\* C12: once the index is built, no pair of words that share a padded
\* bigram and lie within the spelling threshold (1 or 2) is rejected by the
\* length filter or the bigram-overlap filter, so every such pair reaches
\* the exact edit-distance test.  (C3 is about the pairs that share none.)
C12_FiltersSound ==
    (pc \notin {"index"} /\ spelling_threshold \in {1, 2}) =>
        \A a \in Ids : \A b \in Ids :
            ( /\ a < b
              /\ word_bigrams[a] \cap word_bigrams[b] # {}
              /\ Levenshtein(words[a], words[b]) <= spelling_threshold )
                => PassesFiltersOf(a, b)

\* C13: during a pass every pair that got past the two guards did so once
\* and is a pair of distinct ids, the seen_pairs guard has skipped nothing,
\* checked and merge_count count pairs at most once each, and when the
\* candidate loop is over the pairs that got past the guards are exactly
\* the pairs i < j whose words share a padded bigram.
C13_EachPairEntersOnce ==
    /\ \A p \in BagToSet(entered) : CopiesIn(p, entered) = 1 /\ p[1] < p[2]
    /\ BagToSet(entered) = seen_pairs
    /\ seen_skips = 0
    /\ checked <= Cardinality(seen_pairs)
    /\ merge_count = Cardinality(unions)
    /\ unions \subseteq seen_pairs
    /\ pc \in {"select", "done"} =>
          \A a \in Ids : \A b \in Ids :
              a < b =>
                  (CopiesIn(<<a, b>>, entered) = 1
                      <=> Bigrams(words[a]) \cap Bigrams(words[b]) # {})

\* C13 witness: a pass over three words has finished in which two pairs
\* went through the filter chain, one of them counted in checked and
\* merged, and a third pair shared no bigram and never got there.
C13_Witness ==
    /\ pc = "done"
    /\ n = 3
    /\ Cardinality(seen_pairs) = 2
    /\ checked >= 1
    /\ merge_count >= 1

\* the pair a < b passes every test of the inner loop: a function of the
\* two words, their vectors and the thresholds
Accepted(a, b) ==
    LET bg1 == Bigrams(words[a])
        bg2 == Bigrams(words[b])
    IN  /\ a < b
        /\ bg1 \cap bg2 # {}
        /\ Abs(Len(words[a]) - Len(words[b])) <= spelling_threshold
        /\ Cardinality(bg1 \cap bg2) >=
               Max2(1, Min2(Cardinality(bg1), Cardinality(bg2)) - spelling_threshold - 1)
        /\ edit_distance(words[a], words[b]) <= spelling_threshold
        /\ CosineAtLeast(vectors[a], vectors[b], semantic_threshold)

\* the ids linked to x by chains of accepted pairs
ExpectedCluster(x) ==
    Reach({p \in Ids \X Ids : Accepted(p[1], p[2])}, {x})

\* the ids that are the smallest of their expected cluster
ExpectedFirsts == {x \in Ids : \A y \in ExpectedCluster(x) : x <= y}

\* the entry expected for the cluster of x: its shortest, then
\* lexicographically first, word with the vector the input gives that word
ExpectedEntry(x) ==
    LET c == CHOOSE y \in ExpectedCluster(x) :
                 \A z \in ExpectedCluster(x) :
                     \/ Len(words[y]) < Len(words[z])
                     \/ Len(words[y]) = Len(words[z]) /\ ~StrLess(words[z], words[y])
    IN  embeddings[c + 1]

\* the output as a function of the ordered input and the two thresholds:
\* the expected entries in the order of their clusters' smallest ids
ExpectedOutput ==
    [m \in 1..Cardinality(ExpectedFirsts) |->
        ExpectedEntry(CHOOSE x \in ExpectedFirsts :
                          Cardinality({y \in ExpectedFirsts : y < x}) = m - 1)]

RECURSIVE Up(_, _, _)
\* the k-th ancestor of x in forest p
Up(p, x, k) == IF k = 0 THEN x ELSE Up(p, p[x], k - 1)

\* C14: whatever the order of the candidates and of the unions, whichever
\* root union keeps and whether or not find compresses paths, the finished
\* pass has returned the one output the ordered input and the thresholds
\* determine, and all along the parent array is a forest over the ids:
\* from every id fewer than n parent links lead to a root.
C14_OutputDeterminedByInput ==
    /\ \A x \in Ids : parent[x] \in Ids
    /\ \A x \in Ids : parent[Up(parent, x, n - 1)] = Up(parent, x, n - 1)
    /\ pc = "done" => canonical_words = ExpectedOutput

\* C14 witness: a pass has finished on a cluster of three ids whose union
\* kept the root of the first argument (a link from an id to the smallest
\* id of its cluster) and whose finds compressed nothing (a path of two
\* links is left).
C14_Witness ==
    /\ pc = "done"
    /\ \E x \in Ids :
          /\ parent[x] # x
          /\ \A y \in ClusterOf(x) : parent[x] <= y
          /\ parent[parent[x]] # parent[x]
          /\ Cardinality(ClusterOf(x)) = 3

====
